---- MODULE Spec2Model ----
(***************************************************************************)
(* A model of the dnsredir request router (src/dnsredir.go): match, the    *)
(* select/exchange/retry loop of ServeDNS, healthCheck with its detached   *)
(* decay tasks, urlInitialInProgress and rewriteToMinimalTTLs.             *)
(*                                                                         *)
(* The clock is not kept: the deadline of a request passes at some moment  *)
(* after it was computed (Timeout), and the sleep of a decay task returns  *)
(* at some moment after it began (Decay).                                  *)
(***************************************************************************)
EXTENDS Integers, Sequences, FiniteSets, Bags, TLC

\* ------------------------------------------------------------ constants

failureCheck == 3

\* dnsutil.MinimalDefaultTTL / time.Second, the ceiling ServeDNS passes
MinimalDefaultTTL == 5

RcodeSuccess == 0

RcodeFormatError == 1

RcodeServerFailure == 2

errNil == "nil"

errNoHealthy == "no healthy upstream host"

errCachedConnClosed == "cached connection was closed by peer"

\* any other error of Exchange is a generic transport error; two of them
errTimeout == "i/o timeout"

errRefused == "connection refused"

TransportErrors == {errTimeout, errRefused}

\* ---------------------------------------------------------------- bounds

\* decay tasks that may be asleep or runnable at the same time
MaxTasks == 3

\* Exchange calls since the last Select that are counted exactly
MaxAttempts == 2

\* records in the answer section of a reply handed to rewriteToMinimalTTLs
MaxRRs == 3

\* ------------------------------------------------------- the configuration

\* The request tasks: each serves one request after the other.  Serial are the
\* tasks of the specification Spec.
Reqs == {"r1", "r2"}

Serial == {"r1"}

\* *r.Upstreams: the ordered pool list.  Pool 1 has health checking on,
\* pool 2 has no check interval, pool 3 has no max-fails; the zones overlap
\* ("a" is in pools 1 and 2, "b" in pools 2 and 3).
Upstreams ==
    << [zones |-> {<<"a">>}, maxFails |-> 3, checkInterval |-> 2000,
        hosts |-> {"h1"}],
       [zones |-> {<<"a">>, <<"b">>}, maxFails |-> 3, checkInterval |-> 0,
        hosts |-> {"h2", "h3"}],
       [zones |-> {<<"b">>, <<".">>}, maxFails |-> 0, checkInterval |-> 2000,
        hosts |-> {"h4"}] >>

Pools == DOMAIN Upstreams

Hosts == UNION {Upstreams[p].hosts : p \in Pools}

NoPool == 0

NoHost == "nil"

\* The query names state.Name() hands to match (fully qualified).
QNames == { <<"a", ".">>, <<"b", ".">>, <<".">>, <<"c", ".">> }

\* ---------------------------------------------------------------- match

\* strings.TrimSuffix(name, "."), as the spec words it
removeTrailingDot(name) ==
    IF Len(name) > 0 /\ name[Len(name)] = "."
    THEN SubSeq(name, 1, Len(name) - 1)
    ELSE name

\* Upstream.Match of pool p
Match(p, name) == name \in Upstreams[p].zones

normalize(name) == IF Len(name) > 1 THEN removeTrailingDot(name) ELSE name

RECURSIVE matchFrom(_, _)
\* the scan of match from pool i on: the first pool that accepts the name
matchFrom(name, i) ==
    IF i > Len(Upstreams) THEN NoPool
    ELSE IF Match(i, name) THEN i
    ELSE matchFrom(name, i + 1)

\* the last pool that accepts the name, as from a scan in reverse order
matchLast(name) ==
    LET S == {p \in Pools : Match(p, normalize(name))}
    IN  IF S = {} THEN NoPool ELSE CHOOSE p \in S : \A q \in S : q <= p

\* the loop variable returned after the loop: the last pool, not nil
matchLoopVar(name) ==
    IF matchFrom(normalize(name), 1) = NoPool
    THEN Len(Upstreams)
    ELSE matchFrom(normalize(name), 1)

match(name) == matchFrom(normalize(name), 1)

\* ------------------------------------------------------------- messages

\* req: the query of a request for name (request.Request{W: w, Req: req})
Req(name) == [id |-> 7, question |-> name]

\* what Exchange may hand back with a nil error: a reply to the question (with
\* TTLs below and above the ceiling and an OPT record), or a reply to another
\* question
GoodReply(req) ==
    [id |-> req.id, question |-> req.question, rcode |-> RcodeSuccess,
     answer |-> << [rrtype |-> "A", ttl |-> 3], [rrtype |-> "A", ttl |-> 9] >>,
     ns |-> << [rrtype |-> "NS", ttl |-> 9] >>,
     extra |-> << [rrtype |-> "OPT", ttl |-> 9], [rrtype |-> "A", ttl |-> 9] >>]

WrongReply(req) ==
    [id |-> req.id + 1, question |-> <<"x", ".">>, rcode |-> RcodeSuccess,
     answer |-> << [rrtype |-> "A", ttl |-> 9] >>, ns |-> << >>, extra |-> << >>]

UpstreamReplies(req) == {GoodReply(req), WrongReply(req)}

\* state.Match(reply): the reply answers the question asked
StateMatch(req, m) == m.question = req.question

\* new(dns.Msg).SetRcode(req, rcode)
SetRcode(req, rcode) ==
    [id |-> req.id, question |-> req.question, rcode |-> rcode,
     answer |-> << >>, ns |-> << >>, extra |-> << >>]

MinUint32(a, b) == IF a < b THEN a ELSE b

clampAll(rrs, minimalTTL) ==
    [i \in DOMAIN rrs |-> [rrs[i] EXCEPT !.ttl = MinUint32(@, minimalTTL)]]

\* the loop over Extra without the test of the record type
clampExtraAll(rrs, minimalTTL) ==
    [i \in DOMAIN rrs |-> [rrs[i] EXCEPT !.ttl = MinUint32(@, minimalTTL)]]

clampExtra(rrs, minimalTTL) ==
    [i \in DOMAIN rrs |->
        IF rrs[i].rrtype # "OPT"
        THEN [rrs[i] EXCEPT !.ttl = MinUint32(@, minimalTTL)]
        ELSE rrs[i]]

rewriteToMinimalTTLs(m, minimalTTL) ==
    [m EXCEPT !.answer = clampAll(@, minimalTTL),
              !.ns = clampAll(@, minimalTTL),
              !.extra = clampExtra(@, minimalTTL)]

\* ---------------------------------------------------------------- state

VARIABLES
    pc,              \* where each request is in ServeDNS
    qname,           \* name: the query name of the request
    upstream,        \* upstream: the matched pool (NoPool: none)
    expired,         \* deadline: whether time.Now() has reached it
    host,            \* host: the selected host (NoHost: nil)
    reply,           \* reply: <<>> is nil
    upstreamErr,     \* upstreamErr
    scan,            \* urlInitialInProgress: the pool the scan loads next
    wrote,           \* what the request wrote with w.WriteMsg
    ret,             \* what ServeDNS returned: (code, err)
    nextRet,         \* what the next handler returned to ServeDNS
    attempts,        \* Exchange calls since the last Select
    closed,          \* of those, the ones that ended in errCachedConnClosed
    fails,           \* uh.fails of each host
    tasks,           \* the detached decay tasks of healthCheck, a bag
    nFail,           \* the failures healthCheck counted for each host so
                     \* far, modulo failureCheck
    initialFinished, \* the population flag
    initialCount,    \* up.initialCount of each pool
    ttlCall,         \* a call of rewriteToMinimalTTLs: its reply (rewritten in
                     \* place), its minimalTTL and the reply as it was before
    hooks            \* OnStartup and OnShutdown: the hook that runs, the calls
                     \* it has made and what it returned

reqVars == <<pc, qname, upstream, expired, host, reply, upstreamErr, scan,
             wrote, ret, nextRet, attempts, closed>>

hcVars == <<fails, tasks, nFail>>

popVars == <<initialFinished, initialCount>>

otherVars == <<ttlCall, hooks>>

vars == <<reqVars, hcVars, popVars, otherVars>>

NoRet == [code |-> -1, err |-> "none"]

\* no call of rewriteToMinimalTTLs is being looked at
NoCall == [pc |-> "none"]

\* no hook has run yet: every pool is as it was built
NoHook == [pc |-> "none", state |-> [p \in Pools |-> "new"]]

\* a counter that is exact up to cap; beyond cap it keeps going between
\* cap + 1 and cap + 2, so that every count is a change of the state
Count(x, cap) == IF x <= cap THEN x + 1 ELSE IF x = cap + 1 THEN cap + 2 ELSE cap + 1

Init ==
    /\ pc = [r \in Reqs |-> "idle"]
    /\ qname = [r \in Reqs |-> << >>]
    /\ upstream = [r \in Reqs |-> NoPool]
    /\ expired = [r \in Reqs |-> FALSE]
    /\ host = [r \in Reqs |-> NoHost]
    /\ reply = [r \in Reqs |-> << >>]
    /\ upstreamErr = [r \in Reqs |-> errNil]
    /\ scan = [r \in Reqs |-> 0]
    /\ wrote = [r \in Reqs |-> << >>]
    /\ ret = [r \in Reqs |-> NoRet]
    /\ nextRet = [r \in Reqs |-> NoRet]
    /\ attempts = [r \in Reqs |-> 0]
    /\ closed = [r \in Reqs |-> 0]
    /\ fails = [h \in Hosts |-> 0]
    /\ tasks = EmptyBag
    /\ nFail = [h \in Hosts |-> 0]
    /\ initialFinished = 0
    /\ initialCount = [p \in Pools |-> 0]
    /\ ttlCall = NoCall
    /\ hooks = NoHook

\* ------------------------------------------------------ helpers of the actions

RECURSIVE SumOver(_, _)
SumOver(S, f) ==
    IF S = {} THEN 0
    ELSE LET x == CHOOSE y \in S : TRUE IN f[x] + SumOver(S \ {x}, f)

\* time.Now().Before(deadline)
beforeDeadline(r) == ~expired[r]

\* a comparison that never holds, as against a wrapped copy of the error
isCachedConnClosedNever(err) == FALSE

\* upstreamErr == errCachedConnClosed: retry on the same host
isCachedConnClosed(err) == err = errCachedConnClosed

\* the early return with the test of maxFails the wrong way round
hcEnabledTypo(p) == ~(Upstreams[p].checkInterval = 0 \/ Upstreams[p].maxFails # 0)

\* an early return that looks at maxFails only
hcEnabledMaxFailsOnly(p) == Upstreams[p].maxFails # 0

\* healthCheck's early return, negated
hcEnabled(p) == ~(Upstreams[p].checkInterval = 0 \/ Upstreams[p].maxFails = 0)

\* fails % failureCheck == 0
probeDue(f) == f % failureCheck = 0

\* the synthesized reply with the rcode of the other return paths
formerrServFail(req) == SetRcode(req, RcodeServerFailure)

\* formerr.SetRcode(state.Req, dns.RcodeFormatError)
formerr(req) == SetRcode(req, RcodeFormatError)

\* a fast path that is never taken
finishedSeenNever(v) == FALSE

\* atomic.LoadInt32(&initialFinished) != 0
finishedSeen(v) == v # 0

\* the locals of a request that starts
Begin(r, name, p) ==
    /\ qname' = [qname EXCEPT ![r] = name]
    /\ upstream' = [upstream EXCEPT ![r] = p]
    /\ host' = [host EXCEPT ![r] = NoHost]
    /\ reply' = [reply EXCEPT ![r] = << >>]
    /\ upstreamErr' = [upstreamErr EXCEPT ![r] = errNil]
    /\ scan' = [scan EXCEPT ![r] = 0]
    /\ wrote' = [wrote EXCEPT ![r] = << >>]
    /\ attempts' = [attempts EXCEPT ![r] = 0]
    /\ closed' = [closed EXCEPT ![r] = 0]

\* a request ends (how: "done" or "panic"): what it wrote and returned stays,
\* and so do the pool, the deadline and the error it ended with; the other
\* locals are gone
End(r, how) ==
    /\ pc' = [pc EXCEPT ![r] = how]
    /\ host' = [host EXCEPT ![r] = NoHost]
    /\ reply' = [reply EXCEPT ![r] = << >>]
    /\ scan' = [scan EXCEPT ![r] = 0]
    /\ UNCHANGED <<upstream, expired, upstreamErr>>
    /\ attempts' = [attempts EXCEPT ![r] = 0]
    /\ closed' = [closed EXCEPT ![r] = 0]

\* return code, err
Return(r, code, err) ==
    /\ End(r, "done")
    /\ ret' = [ret EXCEPT ![r] = [code |-> code, err |-> err]]

\* the locals a step inside the loop leaves alone, pc apart
loopLocals == <<upstream, expired, host, reply, upstreamErr, scan, attempts, closed>>

\* ------------------------------------------------------------- ServeDNS

\* what the next handler of the chain may return
NextResults == {[code |-> RcodeSuccess, err |-> errNil],
                [code |-> RcodeServerFailure, err |-> "next"]}

\* ServeDNS, no pool matches: plugin.NextOrFailure(r.Name(), r.Next, ctx, w, req)
\* with a next handler that returns res
ServeNext(r) ==
    \E name \in QNames, res \in NextResults :
        /\ pc[r] \in {"idle", "done", "panic"}
        /\ match(name) = NoPool
        /\ pc' = [pc EXCEPT ![r] = "done"]
        /\ Begin(r, name, NoPool)
        /\ nextRet' = [nextRet EXCEPT ![r] = res]
        /\ ret' = [ret EXCEPT ![r] = res]
        /\ UNCHANGED <<expired, hcVars, popVars, otherVars>>

\* ServeDNS up to the loop: the pool is matched and the deadline computed
ServeMatched(r) ==
    \E name \in QNames :
        /\ pc[r] \in {"idle", "done", "panic"}
        /\ match(name) # NoPool
        /\ pc' = [pc EXCEPT ![r] = "loop"]
        /\ Begin(r, name, match(name))
        /\ expired' = [expired EXCEPT ![r] = FALSE]
        /\ ret' = [ret EXCEPT ![r] = NoRet]
        /\ nextRet' = [nextRet EXCEPT ![r] = NoRet]
        /\ UNCHANGED <<hcVars, popVars, otherVars>>

\* one fixed error for every request that runs out of time
deadlineErrFixed(r) == errTimeout

\* return dns.RcodeServerFailure, upstreamErr: the error that is returned
deadlineErr(r) == upstreamErr[r]

\* for time.Now().Before(deadline): into the body, or out of the loop
LoopCheck(r) ==
    /\ pc[r] = "loop"
    /\ IF beforeDeadline(r)
       THEN /\ pc' = [pc EXCEPT ![r] = "select"]
            /\ UNCHANGED <<ret, loopLocals>>
       ELSE IF upstreamErr[r] = errNil
       THEN /\ End(r, "panic")
            /\ UNCHANGED ret
       ELSE Return(r, RcodeServerFailure, deadlineErr(r))
    /\ UNCHANGED <<qname, wrote, nextRet, hcVars, popVars, otherVars>>

\* no host: on to the next iteration instead of the return
NoHealthyRetry(r) ==
    /\ pc' = [pc EXCEPT ![r] = "loop"]
    /\ UNCHANGED <<ret, loopLocals>>

\* if host == nil: return dns.RcodeServerFailure, errNoHealthy
NoHealthy(r) == Return(r, RcodeServerFailure, errNoHealthy)

\* host := upstream.Select()
Select(r) ==
    /\ pc[r] = "select"
    /\ \E h \in Upstreams[upstream[r]].hosts \cup {NoHost} :
          IF h = NoHost
          THEN NoHealthy(r)
          ELSE /\ pc' = [pc EXCEPT ![r] = "exchange"]
               /\ host' = [host EXCEPT ![r] = h]
               /\ attempts' = [attempts EXCEPT ![r] = 0]
               /\ closed' = [closed EXCEPT ![r] = 0]
               /\ UNCHANGED <<ret, upstream, expired, reply, upstreamErr, scan>>
    /\ UNCHANGED <<qname, wrote, nextRet, hcVars, popVars, otherVars>>

\* atomic.AddInt32(&uh.fails, 1): the value it returns
addFail(f) == f + 1

\* the decay tasks of host h that have not made their decrement yet
Undecayed(h) ==
    SumOver({t \in BagToSet(tasks) : t.host = h /\ t.phase = "sleep"}, tasks)

\* healthCheck(upstream, host): the increment and the detached decay task, which
\* keeps the value the increment returned (fails).  window is the task's place
\* in the host's history: how many of the host's failures, this one included,
\* are not decayed yet.
healthCheck(p, h) ==
    IF ~hcEnabled(p)
    THEN UNCHANGED hcVars
    ELSE /\ BagCardinality(tasks) < MaxTasks
         /\ fails' = [fails EXCEPT ![h] = addFail(@)]
         /\ tasks' = tasks (+) SetToBag({[host |-> h,
                                          fails |-> addFail(fails[h]),
                                          window |-> Undecayed(h) + 1,
                                          phase |-> "sleep"]})
         /\ nFail' = [nFail EXCEPT ![h] = (@ + 1) % failureCheck]

\* what host.Exchange(ctx, state) may return: (nil, error) or (reply, nil)
ExchangeResults(req) ==
    {[reply |-> << >>, err |-> e] : e \in {errCachedConnClosed} \cup TransportErrors}
    \cup {[reply |-> <<m>>, err |-> errNil] : m \in UpstreamReplies(req)}

\* One Exchange of the inner loop and what ServeDNS does with its result: the
\* retry on the same host, healthCheck and back to the loop (host is a
\* variable of the loop body), or on to the validation of the reply.  (A
\* truncated reply is only logged.)
Exchange(r) ==
    /\ pc[r] = "exchange"
    /\ \E res \in ExchangeResults(Req(qname[r])) :
          IF isCachedConnClosed(res.err)
          THEN /\ reply' = [reply EXCEPT ![r] = res.reply]
               /\ upstreamErr' = [upstreamErr EXCEPT ![r] = res.err]
               /\ attempts' = [attempts EXCEPT ![r] = Count(@, MaxAttempts)]
               /\ closed' = [closed EXCEPT ![r] = Count(@, MaxAttempts)]
               /\ UNCHANGED <<pc, ret, upstream, expired, host, scan, wrote,
                              hcVars>>
          ELSE IF res.err # errNil
          THEN /\ reply' = [reply EXCEPT ![r] = res.reply]
               /\ upstreamErr' = [upstreamErr EXCEPT ![r] = res.err]
               /\ attempts' = [attempts EXCEPT ![r] = Count(@, MaxAttempts)]
               /\ IF Upstreams[upstream[r]].maxFails # 0
                  THEN healthCheck(upstream[r], host[r])
                  ELSE UNCHANGED hcVars
               /\ pc' = [pc EXCEPT ![r] = "loop"]
               /\ host' = [host EXCEPT ![r] = NoHost]
               /\ UNCHANGED <<closed, ret, upstream, expired, scan, wrote>>
          ELSE /\ reply' = [reply EXCEPT ![r] = res.reply]
               /\ upstreamErr' = [upstreamErr EXCEPT ![r] = res.err]
               /\ attempts' = [attempts EXCEPT ![r] = Count(@, MaxAttempts)]
               /\ pc' = [pc EXCEPT ![r] = "validate"]
               /\ UNCHANGED <<closed, ret, upstream, expired, host, scan, wrote,
                              hcVars>>
    /\ UNCHANGED <<qname, nextRet, popVars, otherVars>>

\* if !state.Match(reply): the FORMERR reply and return 0, nil; else on to
\* urlInitialInProgress (host and the counts of the exchanges are not used again)
Validate(r) ==
    /\ pc[r] = "validate"
    /\ IF ~StateMatch(Req(qname[r]), reply[r][1])
       THEN /\ wrote' = [wrote EXCEPT ![r] = Append(@, formerr(Req(qname[r])))]
            /\ Return(r, RcodeSuccess, errNil)
       ELSE /\ pc' = [pc EXCEPT ![r] = "initial"]
            /\ host' = [host EXCEPT ![r] = NoHost]
            /\ attempts' = [attempts EXCEPT ![r] = 0]
            /\ closed' = [closed EXCEPT ![r] = 0]
            /\ UNCHANGED <<wrote, ret, upstream, expired, reply, upstreamErr, scan>>
    /\ UNCHANGED <<qname, nextRet, hcVars, popVars, otherVars>>

\* a delivery that looks at the deadline first
DeliverBeforeDeadline(r, inProgress) ==
    IF beforeDeadline(r)
    THEN /\ wrote' = [wrote EXCEPT ![r] =
                         Append(@, IF inProgress
                                   THEN rewriteToMinimalTTLs(reply[r][1], MinimalDefaultTTL)
                                   ELSE reply[r][1])]
         /\ Return(r, RcodeSuccess, errNil)
    ELSE /\ UNCHANGED wrote
         /\ Return(r, RcodeServerFailure, errTimeout)

\* if r.urlInitialInProgress() { rewriteToMinimalTTLs(...) }; w.WriteMsg(reply);
\* return 0, nil
Deliver(r, inProgress) ==
    /\ wrote' = [wrote EXCEPT ![r] =
                    Append(@, IF inProgress
                              THEN rewriteToMinimalTTLs(reply[r][1], MinimalDefaultTTL)
                              ELSE reply[r][1])]
    /\ Return(r, RcodeSuccess, errNil)

\* urlInitialInProgress: atomic.LoadInt32(&initialFinished)
LoadFinished(r) ==
    /\ pc[r] = "initial"
    /\ IF finishedSeen(initialFinished)
       THEN Deliver(r, FALSE)
       ELSE /\ pc' = [pc EXCEPT ![r] = "scan"]
            /\ scan' = [scan EXCEPT ![r] = 1]
            /\ UNCHANGED <<wrote, ret, upstream, expired, host, reply,
                           upstreamErr, attempts, closed>>
    /\ UNCHANGED <<qname, nextRet, hcVars, popVars, otherVars>>

\* urlInitialInProgress: atomic.LoadInt32(&up.initialCount) of the next pool
LoadCount(r) ==
    /\ pc[r] = "scan"
    /\ IF initialCount[scan[r]] # 0
       THEN Deliver(r, TRUE)
       ELSE /\ IF scan[r] < Len(Upstreams)
               THEN /\ scan' = [scan EXCEPT ![r] = @ + 1]
                    /\ UNCHANGED pc
               ELSE /\ scan' = [scan EXCEPT ![r] = 0]
                    /\ pc' = [pc EXCEPT ![r] = "store"]
            /\ UNCHANGED <<wrote, ret, upstream, expired, host, reply,
                           upstreamErr, attempts, closed>>
    /\ UNCHANGED <<qname, nextRet, hcVars, popVars, otherVars>>

\* urlInitialInProgress: atomic.StoreInt32(&initialFinished, 1); return false
StoreFinished(r) ==
    /\ pc[r] = "store"
    /\ initialFinished' = 1
    /\ Deliver(r, FALSE)
    /\ UNCHANGED <<qname, nextRet, hcVars, initialCount, otherVars>>

\* ------------------------------------------------------- the decay task

\* a decay task with the decrement inside the if of the Check() call
DecayInsideIf(t) ==
    /\ BagIn(t, tasks)
    /\ t.phase = "sleep"
    /\ fails' = [fails EXCEPT ![t.host] = IF probeDue(t.fails) THEN @ - 1 ELSE @]
    /\ tasks' = IF probeDue(t.fails)
                THEN (tasks (-) SetToBag({t}))
                     (+) SetToBag({[t EXCEPT !.phase = "check"]})
                ELSE tasks (-) SetToBag({t})
    /\ UNCHANGED <<nFail, reqVars, popVars, otherVars>>

\* the goroutine of healthCheck when time.Sleep(failTimeout) has returned:
\* atomic.AddInt32(&uh.fails, -1), and on to uh.Check() when the value its
\* increment returned is due
Decay(t) ==
    /\ BagIn(t, tasks)
    /\ t.phase = "sleep"
    /\ fails' = [fails EXCEPT ![t.host] = @ - 1]
    /\ tasks' = IF probeDue(t.fails)
                THEN (tasks (-) SetToBag({t}))
                     (+) SetToBag({[t EXCEPT !.phase = "check"]})
                ELSE tasks (-) SetToBag({t})
    /\ UNCHANGED <<nFail, reqVars, popVars, otherVars>>

\* the goroutine's _ = uh.Check(), after which it ends
Check(t) ==
    /\ BagIn(t, tasks)
    /\ t.phase = "check"
    /\ tasks' = tasks (-) SetToBag({t})
    /\ UNCHANGED <<fails, nFail, reqVars, popVars, otherVars>>

\* ------------------------------------------------------- the environment

Active(r) ==
    pc[r] \in {"loop", "select", "exchange", "validate", "initial", "scan", "store"}

\* the clock reaches the deadline of a request that is being served
Timeout(r) ==
    /\ Active(r)
    /\ ~expired[r]
    /\ expired' = [expired EXCEPT ![r] = TRUE]
    /\ UNCHANGED <<pc, qname, upstream, host, reply, upstreamErr, scan, wrote,
                   ret, nextRet, attempts, closed, hcVars, popVars, otherVars>>

\* a pool starts or ends an initial load of its name list
Reload(p) ==
    /\ initialCount' = [initialCount EXCEPT ![p] = 1 - @]
    /\ UNCHANGED <<reqVars, hcVars, initialFinished, otherVars>>

\* ------------------------------------------------------- the specification

Serve(r) ==
    \/ ServeNext(r)
    \/ ServeMatched(r)
    \/ LoopCheck(r)
    \/ Select(r)
    \/ Exchange(r)
    \/ Validate(r)
    \/ LoadFinished(r)
    \/ LoadCount(r)
    \/ StoreFinished(r)

\* Spec: one request task, every pool past its initial load
Next ==
    \/ \E r \in Serial : Serve(r)
    \/ \E r \in Serial : Timeout(r)
    \/ \E t \in BagToSet(tasks) : Decay(t)
    \/ \E t \in BagToSet(tasks) : Check(t)

Spec == Init /\ [][Next]_vars

\* FairSpec: Spec with a request task that keeps running, Exchange calls that
\* return and a clock that keeps going
Fairness ==
    \A r \in Serial :
        /\ WF_vars(LoopCheck(r))
        /\ WF_vars(Select(r))
        /\ WF_vars(Exchange(r))
        /\ WF_vars(Validate(r))
        /\ WF_vars(LoadFinished(r))
        /\ WF_vars(LoadCount(r))
        /\ WF_vars(StoreFinished(r))
        /\ WF_vars(Timeout(r))

FairSpec == Init /\ [][Next]_vars /\ Fairness

\* PopSpec: two request tasks at once while the pools start and end initial
\* loads; no deadline is reached and no decay task has slept its time yet
PopInit ==
    /\ Init!1 /\ Init!2 /\ Init!3 /\ Init!4 /\ Init!5 /\ Init!6 /\ Init!7
    /\ Init!8 /\ Init!9 /\ Init!10 /\ Init!11 /\ Init!12 /\ Init!13
    /\ Init!14 /\ Init!15 /\ Init!16 /\ Init!17
    /\ initialCount \in [Pools -> {0, 1}]
    /\ Init!19 /\ Init!20

PopNext ==
    \/ \E r \in Reqs : ServeMatched(r)
    \/ \E r \in Reqs : LoopCheck(r)
    \/ \E r \in Reqs : Select(r)
    \/ \E r \in Reqs : Exchange(r)
    \/ \E r \in Reqs : Validate(r)
    \/ \E r \in Reqs : LoadFinished(r)
    \/ \E r \in Reqs : LoadCount(r)
    \/ \E r \in Reqs : StoreFinished(r)
    \/ \E p \in Pools : Reload(p)

PopSpec == PopInit /\ [][PopNext]_vars

\* ConcSpec: two request tasks at once, failing against the same hosts while
\* the decay tasks of earlier failures run; the initial loads are over and
\* the flag is set, and no deadline is reached
ConcInit ==
    /\ Init!1 /\ Init!2 /\ Init!3 /\ Init!4 /\ Init!5 /\ Init!6 /\ Init!7
    /\ Init!8 /\ Init!9 /\ Init!10 /\ Init!11 /\ Init!12 /\ Init!13
    /\ Init!14 /\ Init!15 /\ Init!16
    /\ initialFinished = 1
    /\ Init!18 /\ Init!19 /\ Init!20

ConcNext ==
    \/ \E r \in Reqs : ServeMatched(r)
    \/ \E r \in Reqs : LoopCheck(r)
    \/ \E r \in Reqs : Select(r)
    \/ \E r \in Reqs : Exchange(r)
    \/ \E r \in Reqs : Validate(r)
    \/ \E r \in Reqs : LoadFinished(r)
    \/ \E t \in BagToSet(tasks) : Decay(t)
    \/ \E t \in BagToSet(tasks) : Check(t)

ConcSpec == ConcInit /\ [][ConcNext]_vars

\* some pool is in an initial load
SomeLoading == \E p \in Pools : initialCount[p] # 0

\* a pool starts or ends an initial load while another pool is in one
ReloadOverlapping(p) ==
    /\ Reload(p)
    /\ SomeLoading'

\* ScanSpec: one request task, and pools whose initial loads overlap: at every
\* instant some pool is in an initial load
ScanInit ==
    /\ PopInit
    /\ SomeLoading

ScanNext ==
    \/ \E r \in Serial : ServeMatched(r)
    \/ \E r \in Serial : LoopCheck(r)
    \/ \E r \in Serial : Select(r)
    \/ \E r \in Serial : Exchange(r)
    \/ \E r \in Serial : Validate(r)
    \/ \E r \in Serial : LoadFinished(r)
    \/ \E r \in Serial : LoadCount(r)
    \/ \E r \in Serial : StoreFinished(r)
    \/ \E p \in Pools : ReloadOverlapping(p)

ScanSpec == ScanInit /\ [][ScanNext]_vars

\* --------------------------------------------- rewriteToMinimalTTLs alone

\* the sequences over S of length at most n
SeqsUpTo(S, n) == UNION {[1..k -> S] : k \in 0..n}

\* TTLs below and above the ceilings, and the flags an OPT record keeps in
\* its TTL field (none, or the DO bit)
TTLValues == {10, 500, 3600}

OPTFlags == {0, 32768}

Ceilings == {MinimalDefaultTTL, 300, 4000}

\* the replies rewriteToMinimalTTLs is handed
TTLReplies ==
    {[id |-> 7, question |-> <<"a", ".">>, rcode |-> RcodeSuccess,
      answer |-> an, ns |-> au, extra |-> ex] :
        an \in SeqsUpTo({[rrtype |-> "A", ttl |-> t] : t \in TTLValues}, MaxRRs),
        au \in SeqsUpTo({[rrtype |-> "NS", ttl |-> t] : t \in TTLValues}, 1),
        ex \in SeqsUpTo({[rrtype |-> "A", ttl |-> t] : t \in {10, 3600}}
                          \cup {[rrtype |-> "OPT", ttl |-> f] : f \in OPTFlags}, 2)}

\* rewriteToMinimalTTLs(reply, minimalTTL) is called
TTLInit ==
    /\ Init!1 /\ Init!2 /\ Init!3 /\ Init!4 /\ Init!5 /\ Init!6 /\ Init!7
    /\ Init!8 /\ Init!9 /\ Init!10 /\ Init!11 /\ Init!12 /\ Init!13
    /\ Init!14 /\ Init!15 /\ Init!16 /\ Init!17 /\ Init!18 /\ Init!20
    /\ ttlCall \in {[pc |-> "called", reply |-> m, before |-> m, minimalTTL |-> c] :
                        m \in TTLReplies, c \in Ceilings}

\* the body of rewriteToMinimalTTLs: the three loops over the sections
Rewrite ==
    /\ ttlCall.pc = "called"
    /\ ttlCall' = [ttlCall EXCEPT
                      !.pc = "done",
                      !.reply = rewriteToMinimalTTLs(@, ttlCall.minimalTTL)]
    /\ UNCHANGED <<reqVars, hcVars, popVars, hooks>>

TTLNext == Rewrite

TTLSpec == TTLInit /\ [][TTLNext]_vars

\* ------------------------------------------------ OnStartup and OnShutdown

\* what up.Start() and up.Stop() may return: nil or an error
errStart == "start failed"

errStop == "stop failed"

HookResults(kind) == {errNil, IF kind = "OnStartup" THEN errStart ELSE errStop}

\* what a pool is after a call that returned nil
After(kind) == IF kind = "OnStartup" THEN "started" ELSE "stopped"

\* OnStartup or OnShutdown is called (the server starts, restarts or stops)
HookBegin(kind) ==
    /\ hooks.pc \in {"none", "returned"}
    /\ hooks' = [pc |-> "running", kind |-> kind, i |-> 1, calls |-> << >>,
                 err |-> errNil, state |-> hooks.state, was |-> hooks.state]
    /\ UNCHANGED <<reqVars, hcVars, popVars, ttlCall>>

\* every call is made and the error of the last one returned
HookCallAll ==
    /\ hooks.pc = "running"
    /\ hooks.i <= Len(Upstreams)
    /\ \E e \in HookResults(hooks.kind) :
          hooks' = [hooks EXCEPT
                      !.calls = Append(@, [pool |-> hooks.i, err |-> e]),
                      !.err = e,
                      !.i = @ + 1,
                      !.state = IF e = errNil
                                THEN [@ EXCEPT ![hooks.i] = After(hooks.kind)]
                                ELSE @]
    /\ UNCHANGED <<reqVars, hcVars, popVars, ttlCall>>

\* for _, up := range *r.Upstreams: the call of up.Start() or up.Stop() for
\* the next pool, and return err when it is not nil (a call that fails leaves
\* the pool as it is)
HookCall ==
    /\ hooks.pc = "running"
    /\ hooks.i <= Len(Upstreams)
    /\ \E e \in HookResults(hooks.kind) :
          hooks' = [hooks EXCEPT
                      !.calls = Append(@, [pool |-> hooks.i, err |-> e]),
                      !.err = e,
                      !.pc = IF e = errNil THEN "running" ELSE "returned",
                      !.i = IF e = errNil THEN @ + 1 ELSE @,
                      !.state = IF e = errNil
                                THEN [@ EXCEPT ![hooks.i] = After(hooks.kind)]
                                ELSE @]
    /\ UNCHANGED <<reqVars, hcVars, popVars, ttlCall>>

\* return nil after the loop
HookReturn ==
    /\ hooks.pc = "running"
    /\ hooks.i > Len(Upstreams)
    /\ hooks' = [hooks EXCEPT !.pc = "returned"]
    /\ UNCHANGED <<reqVars, hcVars, popVars, ttlCall>>

HookNext ==
    \/ \E kind \in {"OnStartup", "OnShutdown"} : HookBegin(kind)
    \/ HookCall
    \/ HookReturn

HookSpec == Init /\ [][HookNext]_vars

\* ------------------------------------------------------- the properties

\* a step in which an Exchange of request r ends in a generic transport error
FailedExchange(r) ==
    /\ pc[r] = "exchange"
    /\ pc'[r] # "exchange"
    /\ upstreamErr'[r] \in TransportErrors

\* C1, as stated: in a pool with max-fails > 0, every exchange that fails with
\* a generic transport error increments the failure counter of the selected
\* host by exactly 1.
C1_MaxFailsOnly ==
    [][\A r \in Reqs :
          (FailedExchange(r) /\ Upstreams[upstream[r]].maxFails > 0)
              => fails'[host[r]] = fails[host[r]] + 1]_vars

\* C1, amended: in a pool with max-fails > 0 and a non-zero check interval,
\* every exchange that fails with a generic transport error increments the
\* failure counter of the selected host by exactly 1 and leaves the counters
\* of the other hosts alone; with a zero check interval no counter changes.
C1_BothNonZero ==
    [][\A r \in Reqs :
          (FailedExchange(r) /\ Upstreams[upstream[r]].maxFails > 0)
              => IF Upstreams[upstream[r]].checkInterval # 0
                 THEN /\ fails'[host[r]] = fails[host[r]] + 1
                      /\ \A h \in Hosts \ {host[r]} : fails'[h] = fails[h]
                 ELSE fails' = fails]_vars

\* a second failure of h1 has been counted before the first has decayed
C1_Witness ==
    \E r \in Reqs :
        /\ pc[r] = "loop"
        /\ upstreamErr[r] \in TransportErrors
        /\ upstream[r] = 1
        /\ fails["h1"] = 2

\* C2: counting the failures of a host 1, 2, 3, ... over all requests and any
\* timing of the decay tasks, the n-th failure causes a Check() if and only
\* if n is a multiple of 3.  The decay task a failure starts calls Check()
\* after its sleep exactly when the value it keeps is a multiple of
\* failureCheck; nFail is n modulo failureCheck.
C2_EveryThirdFailure ==
    [][\A t \in BagToSet(tasks') :
          (t.phase = "sleep" /\ CopiesIn(t, tasks') > CopiesIn(t, tasks))
              => ((t.fails % failureCheck = 0) <=> (nFail'[t.host] = 0))]_vars

\* a step in which an Exchange of request r ends in errCachedConnClosed
ClosedExchange(r) ==
    /\ pc[r] = "exchange"
    /\ upstreamErr'[r] = errCachedConnClosed
    /\ (upstreamErr[r] # errCachedConnClosed \/ attempts'[r] # attempts[r]
            \/ pc'[r] # pc[r])

\* C3: when the Exchange of the selected host ends K times in the closed
\* cached connection error and then succeeds, ServeDNS has made exactly K + 1
\* Exchange calls since the Select, all to that host, and none of them changed
\* a failure counter or started a decay task.
C3_ClosedRetry ==
    [][\A r \in Reqs :
          /\ ClosedExchange(r)
                => /\ pc'[r] = "exchange"
                   /\ host'[r] = host[r]
                   /\ closed'[r] = Count(closed[r], MaxAttempts)
                   /\ UNCHANGED <<fails, tasks>>
          /\ (pc[r] = "exchange" /\ pc'[r] = "validate")
                => /\ host'[r] = host[r]
                   /\ UNCHANGED <<fails, tasks>>
                   /\ attempts'[r] <= MaxAttempts
                         => attempts'[r] = closed'[r] + 1]_vars

\* a reply has come after one closed connection: two Exchange calls
C3_Witness ==
    \E r \in Reqs :
        /\ pc[r] = "validate"
        /\ upstream[r] = 1
        /\ closed[r] = 1
        /\ attempts[r] = 2
        /\ host[r] = "h1"

\* C4: a request whose pool always has a host to select and whose exchanges
\* always fail returns in the end: from the Select on, either ServeDNS has
\* returned, or the pool had no host, or an exchange has succeeded.
C4_Terminates ==
    \A r \in Reqs :
        (pc[r] = "select") ~> (pc[r] \in {"done", "panic"} \/ reply[r] # << >>)

\* C5: the population flag only ever goes from in-progress to finished, and a
\* call of urlInitialInProgress that starts when it is finished returns false
\* (the reply is written as received) whatever the counters of the pools are.
C5_Latch ==
    [][/\ initialFinished' # initialFinished
            => (initialFinished = 0 /\ initialFinished' = 1)
       /\ \A r \in Reqs :
             (pc[r] = "initial" /\ initialFinished # 0 /\ pc'[r] # "initial")
                 => /\ pc'[r] = "done"
                    /\ wrote'[r] = <<reply[r][1]>>
                    /\ popVars' = popVars]_vars

\* both requests have had their replies as received although every pool is in
\* an initial load: the flag is finished
C5_Witness ==
    /\ initialFinished = 1
    /\ \A p \in Pools : initialCount[p] # 0
    /\ \A r \in Reqs :
          /\ pc[r] = "done"
          /\ wrote[r] = <<GoodReply(Req(qname[r]))>>

\* C6: when the reply of a successful exchange does not answer the question
\* asked, ServeDNS writes one reply of its own with rcode FORMERR, the id and
\* the question of the query, returns 0, nil at once and changes no failure
\* counter.
C6_Formerr ==
    [][\A r \in Reqs :
          (pc[r] = "validate" /\ reply[r][1].question # qname[r]
                /\ pc'[r] # "validate")
              => /\ pc'[r] = "done"
                 /\ wrote'[r] = <<[id |-> Req(qname[r]).id,
                                   question |-> qname[r],
                                   rcode |-> RcodeFormatError,
                                   answer |-> << >>, ns |-> << >>,
                                   extra |-> << >>]>>
                 /\ ret'[r] = [code |-> RcodeSuccess, err |-> errNil]
                 /\ UNCHANGED <<fails, tasks>>]_vars

\* a request has ended with the FORMERR reply
C6_Witness ==
    \E r \in Reqs :
        /\ pc[r] = "done"
        /\ Len(wrote[r]) = 1
        /\ wrote[r][1].rcode = RcodeFormatError
        /\ wrote[r][1].question = qname[r]
        /\ ret[r] = [code |-> RcodeSuccess, err |-> errNil]

\* C7: a Select that gives a host goes on to the Exchange with a host of the
\* pool; a Select that gives none ends the request at once with
\* RcodeServerFailure and errNoHealthy, nothing written and no counter
\* changed, whatever the deadline and the error of an earlier iteration.
C7_NoHealthy ==
    [][\A r \in Reqs :
          (pc[r] = "select" /\ pc'[r] # "select")
              => \/ /\ pc'[r] = "exchange"
                    /\ host'[r] \in Upstreams[upstream[r]].hosts
                 \/ /\ pc'[r] = "done"
                    /\ ret'[r] = [code |-> RcodeServerFailure, err |-> errNoHealthy]
                    /\ wrote'[r] = << >>
                    /\ UNCHANGED <<fails, tasks>>]_vars

\* a request has ended for want of a host before its deadline and after a
\* transport error of an earlier iteration
C7_Witness ==
    \E r \in Reqs :
        /\ pc[r] = "done"
        /\ ret[r] = [code |-> RcodeServerFailure, err |-> errNoHealthy]
        /\ wrote[r] = << >>
        /\ ~expired[r]
        /\ upstreamErr[r] \in TransportErrors

\* the name as the pools are asked about it: without its trailing dot when it
\* is longer than one character
Stripped(name) ==
    IF Len(name) > 1 /\ name[Len(name)] = "."
    THEN SubSeq(name, 1, Len(name) - 1)
    ELSE name

\* the pools whose Match accepts the name
Accepting(name) == {p \in Pools : Stripped(name) \in Upstreams[p].zones}

\* a step in which request r enters ServeDNS
Enters(r) ==
    /\ pc[r] \in {"idle", "done", "panic"}
    /\ <<pc[r], qname[r], ret[r], nextRet[r], wrote[r]>>'
          # <<pc[r], qname[r], ret[r], nextRet[r], wrote[r]>>

\* C8: a request for a name that no pool accepts is over in the step it
\* enters: what ServeDNS returns is what the next handler returned, no host is
\* selected, no Exchange made, ServeDNS writes nothing and no failure counter
\* or decay task changes.
C8_NextHandler ==
    [][\A r \in Reqs :
          (Enters(r) /\ Accepting(qname'[r]) = {})
              => /\ pc'[r] = "done"
                 /\ nextRet'[r] \in NextResults
                 /\ ret'[r] = nextRet'[r]
                 /\ wrote'[r] = << >>
                 /\ upstream'[r] = NoPool
                 /\ host'[r] = NoHost
                 /\ attempts'[r] = 0
                 /\ UNCHANGED <<fails, tasks>>]_vars

\* the next handler has failed a request that no pool accepts, while a failure
\* of an earlier request is still counted
C8_Witness ==
    \E r \in Reqs :
        /\ pc[r] = "done"
        /\ qname[r] = <<"c", ".">>
        /\ ret[r] = [code |-> RcodeServerFailure, err |-> "next"]
        /\ ret[r] = nextRet[r]
        /\ wrote[r] = << >>
        /\ fails["h1"] = 1

\* C9: the pool of a request is the first pool, in list order, that accepts
\* its name without the trailing dot, and no pool exactly when none accepts
\* it; the host of every Select and Exchange is a host of that pool.
C9_FirstMatch ==
    \A r \in Reqs :
        qname[r] # << >>
            => /\ IF Accepting(qname[r]) = {}
                  THEN upstream[r] = NoPool
                  ELSE /\ upstream[r] \in Accepting(qname[r])
                       /\ \A p \in Accepting(qname[r]) : upstream[r] <= p
               /\ host[r] # NoHost => host[r] \in Upstreams[upstream[r]].hosts
               /\ pc[r] \in {"select", "exchange"} => upstream[r] # NoPool

\* a name that the first and the second pool accept is exchanged with the host
\* of the first
C9_Witness ==
    \E r \in Reqs :
        /\ qname[r] = <<"a", ".">>
        /\ Accepting(qname[r]) = {1, 2}
        /\ upstream[r] = 1
        /\ pc[r] = "exchange"
        /\ host[r] = "h1"

\* one reply written, the reply to the query or the FORMERR, and 0, nil
OutcomeReply(r) ==
    /\ Len(wrote[r]) = 1
    /\ wrote[r][1].id = Req(qname[r]).id
    /\ wrote[r][1].question = qname[r]
    /\ wrote[r][1].rcode \in {RcodeSuccess, RcodeFormatError}
    /\ ret[r] = [code |-> RcodeSuccess, err |-> errNil]

\* nothing written, RcodeServerFailure and an error
OutcomeFailure(r) ==
    /\ wrote[r] = << >>
    /\ ret[r].code = RcodeServerFailure
    /\ ret[r].err \in {errNoHealthy} \cup TransportErrors

\* C10: a matched request writes at most one reply and ends in one
\* of two ways, one reply with 0, nil or no reply with RcodeServerFailure and
\* an error; it ends in no other way.
C10_TwoOutcomes ==
    \A r \in Reqs :
        upstream[r] # NoPool
            => /\ Len(wrote[r]) <= 1
               /\ Active(r) => (wrote[r] = << >> /\ ret[r] = NoRet)
               /\ pc[r] \in {"done", "panic"}
                     => (pc[r] = "done" /\ (OutcomeReply(r) \/ OutcomeFailure(r)))

\* min(ttl, ceiling), evaluated without MinUint32
Ceiled(ttl, ceiling) == IF ttl <= ceiling THEN ttl ELSE ceiling

\* C11: after rewriteToMinimalTTLs every record of the answer and authority
\* sections and every record of the additional section that is not an OPT
\* record has the TTL min(ttl, ceiling), so no TTL is raised; an OPT record
\* and everything else in the reply are as they were.
C11_ClampedTTLs ==
    ttlCall.pc = "done" =>
        LET b == ttlCall.before
            a == ttlCall.reply
            c == ttlCall.minimalTTL
        IN  /\ a.id = b.id /\ a.question = b.question /\ a.rcode = b.rcode
            /\ Len(a.answer) = Len(b.answer)
            /\ Len(a.ns) = Len(b.ns)
            /\ Len(a.extra) = Len(b.extra)
            /\ \A i \in DOMAIN b.answer :
                  /\ a.answer[i].rrtype = b.answer[i].rrtype
                  /\ a.answer[i].ttl = Ceiled(b.answer[i].ttl, c)
                  /\ a.answer[i].ttl <= b.answer[i].ttl
            /\ \A i \in DOMAIN b.ns :
                  /\ a.ns[i].rrtype = b.ns[i].rrtype
                  /\ a.ns[i].ttl = Ceiled(b.ns[i].ttl, c)
            /\ \A i \in DOMAIN b.extra :
                  IF b.extra[i].rrtype = "OPT"
                  THEN a.extra[i] = b.extra[i]
                  ELSE /\ a.extra[i].rrtype = b.extra[i].rrtype
                       /\ a.extra[i].ttl = Ceiled(b.extra[i].ttl, c)

\* TTLs 10, 500, 3600 under the ceiling 300 have become 10, 300, 300, and the
\* OPT record has kept its flags
C11_Witness ==
    /\ ttlCall.pc = "done"
    /\ ttlCall.minimalTTL = 300
    /\ Len(ttlCall.before.answer) = 3
    /\ [i \in 1..3 |-> ttlCall.before.answer[i].ttl] = <<10, 500, 3600>>
    /\ [i \in 1..3 |-> ttlCall.reply.answer[i].ttl] = <<10, 300, 300>>
    /\ ttlCall.before.extra = <<[rrtype |-> "OPT", ttl |-> 32768]>>
    /\ ttlCall.reply.extra = ttlCall.before.extra

\* C12: ServeDNS returns a generic transport error only from the check of the
\* loop condition with the deadline reached, with RcodeServerFailure and
\* nothing written, and the error is upstreamErr, which only an Exchange of
\* the request sets: the error of its most recent Exchange.  A failed
\* Exchange goes back to the loop condition, and the loop condition with the
\* deadline not reached goes on to the Select.
C12_LastError ==
    [][\A r \in Reqs :
          /\ (pc[r] # "done" /\ pc'[r] = "done"
                    /\ ret'[r].err \in TransportErrors)
                => /\ pc[r] = "loop"
                   /\ expired[r]
                   /\ ret'[r] = [code |-> RcodeServerFailure,
                                 err |-> upstreamErr[r]]
                   /\ wrote'[r] = << >>
          /\ upstreamErr'[r] # upstreamErr[r]
                => (pc[r] = "exchange" \/ Enters(r))
          /\ FailedExchange(r) => pc'[r] = "loop"
          /\ (pc[r] = "loop" /\ ~expired[r] /\ pc'[r] # "loop")
                => pc'[r] = "select"]_vars

\* a request has run out of time and returned the error of its last Exchange
C12_Witness ==
    \E r \in Reqs :
        /\ pc[r] = "done"
        /\ expired[r]
        /\ upstreamErr[r] = errRefused
        /\ ret[r] = [code |-> RcodeServerFailure, err |-> errRefused]
        /\ wrote[r] = << >>

\* the calls of the hook that failed
FailedCalls == {k \in DOMAIN hooks.calls : hooks.calls[k].err # errNil}

\* C13: a hook calls Start (or Stop) on the pools in list order; the first
\* call that fails ends it with that error, the pools after that one are not
\* called and are as they were, the pools before it stay started (stopped);
\* it returns nil only when it has called every pool and every call
\* returned nil.
C13_Hooks ==
    hooks.pc \in {"running", "returned"} =>
        /\ \A k \in DOMAIN hooks.calls : hooks.calls[k].pool = k
        /\ Len(hooks.calls) <= Len(Upstreams)
        /\ FailedCalls \subseteq {Len(hooks.calls)}
        /\ \A p \in Pools :
              hooks.state[p] = IF p \in DOMAIN hooks.calls /\ p \notin FailedCalls
                               THEN After(hooks.kind)
                               ELSE hooks.was[p]
        /\ FailedCalls # {} =>
              /\ hooks.pc = "returned"
              /\ hooks.err = hooks.calls[Len(hooks.calls)].err
              /\ hooks.err # errNil
        /\ (hooks.pc = "returned" /\ hooks.err = errNil) =>
              /\ Len(hooks.calls) = Len(Upstreams)
              /\ FailedCalls = {}

\* OnStartup has ended with the error of the second pool: the first pool is
\* started, the third was not called
C13_Witness ==
    /\ hooks.pc = "returned"
    /\ hooks.kind = "OnStartup"
    /\ hooks.err = errStart
    /\ Len(hooks.calls) = 2
    /\ hooks.was = [p \in Pools |-> "new"]
    /\ hooks.state = [p \in Pools |-> IF p = 1 THEN "started" ELSE "new"]

\* C14: the retry on errCachedConnClosed is bounded by the deadline: a request
\* that is at the Exchange when its deadline is reached leaves the inner loop
\* in the end, also when every Exchange ends in errCachedConnClosed.
C14_ClosedBounded ==
    \A r \in Reqs :
        (pc[r] = "exchange" /\ expired[r]) ~> (pc[r] # "exchange")

\* C15: the loop is never left by the deadline with no error recorded: when
\* the loop condition is evaluated with the deadline reached, upstreamErr is
\* not nil, and the panic after the loop is not reached.
C15_NoPanic ==
    \A r \in Reqs :
        /\ (pc[r] = "loop" /\ expired[r]) => upstreamErr[r] # errNil
        /\ pc[r] # "panic"

\* the pool of request r has a zero check interval or a zero max-fail threshold
EitherZero(r) ==
    \/ Upstreams[upstream[r]].checkInterval = 0
    \/ Upstreams[upstream[r]].maxFails = 0

\* C16: when the check interval or the max-fail threshold of the pool is
\* zero, an exchange that fails with a generic transport error leaves every
\* failure counter unchanged and starts no decay task, the request goes back
\* to the loop to select again, and no decay task (the only caller of
\* Check()) ever exists for a host of such a pool.
C16_NoEscalation ==
    [][/\ \A r \in Reqs :
             (FailedExchange(r) /\ EitherZero(r))
                 => /\ fails' = fails
                    /\ tasks' = tasks
                    /\ pc'[r] = "loop"
       /\ \A t \in BagToSet(tasks') : \A p \in Pools :
             t.host \in Upstreams[p].hosts
                 => /\ Upstreams[p].checkInterval # 0
                    /\ Upstreams[p].maxFails # 0]_vars

\* an exchange with a host of pool 2 (check interval 0, max-fails 3) has
\* failed twice and the request is back at the loop, nothing counted
C16_Witness ==
    \E r \in Reqs :
        /\ pc[r] = "loop"
        /\ upstream[r] = 2
        /\ upstreamErr[r] \in TransportErrors
        /\ attempts[r] >= 1
        /\ \A h \in Hosts : fails[h] = 0
        /\ tasks = EmptyBag

Delivers(r) ==
    /\ pc[r] \in {"initial", "scan", "store"}
    /\ pc'[r] = "done"

\* C18: a valid reply is clamped exactly while the population is in progress:
\* a reply delivered when the flag is already finished is written as it was
\* received, and a reply delivered while the flag is not finished and the
\* counter of some pool is non-zero is written with its TTLs clamped.
C18_ClampedInProgress ==
    [][\A r \in Reqs :
          Delivers(r)
              => /\ initialFinished # 0 => wrote'[r] = <<reply[r][1]>>
                 /\ (initialFinished' = 0 /\ \E p \in Pools : initialCount[p] # 0)
                       => wrote'[r] = <<rewriteToMinimalTTLs(reply[r][1],
                                                             MinimalDefaultTTL)>>
      ]_vars

\* C19: the flag is set to finished only by a call during which, at some
\* instant, the counters of all pools were zero together.  In ScanSpec there
\* is no such instant, the initial loads overlap and some counter is non-zero
\* in every state: the flag stays in progress.
C19_ZeroInstant == SomeLoading /\ initialFinished = 0

\* C20: the deadline is looked at by the loop condition only.  The deadline
\* passing changes nothing of a request by itself; an Exchange that returns
\* after the deadline is treated as one that returns before it (a reply goes
\* on to its validation, a transport error back to the loop condition); a
\* reply that is delivered after the deadline is written and 0, nil returned;
\* and a request returns a server failure with a transport error only from
\* the loop condition, with the deadline passed and that error recorded.
C20_DeadlineAtLoopOnly ==
    [][\A r \in Reqs :
          /\ expired'[r] # expired[r] /\ expired'[r]
                => /\ pc'[r] = pc[r]
                   /\ wrote'[r] = wrote[r]
                   /\ ret'[r] = ret[r]
          /\ pc[r] = "exchange" /\ pc'[r] # "exchange"
                => pc'[r] = IF upstreamErr'[r] = errNil THEN "validate" ELSE "loop"
          /\ Delivers(r)
                => /\ Len(wrote'[r]) = 1
                   /\ ret'[r] = [code |-> RcodeSuccess, err |-> errNil]
          /\ Active(r) /\ pc'[r] = "done" /\ ret'[r].err \in TransportErrors
                => /\ pc[r] = "loop"
                   /\ expired[r]
                   /\ ret'[r] = [code |-> RcodeServerFailure, err |-> upstreamErr[r]]
      ]_vars

\* the deadline passed while the request was in the loop body, and the valid
\* reply was still written and 0, nil returned
C20_Witness ==
    \E r \in Reqs :
        /\ pc[r] = "done"
        /\ expired[r]
        /\ wrote[r] = <<GoodReply(Req(qname[r]))>>
        /\ ret[r] = [code |-> RcodeSuccess, err |-> errNil]


====
